---------------------------- MODULE Spec2Model ----------------------------
(***************************************************************************)
(* compile-commands (src/compile_commands/main.py): the record             *)
(* transformation pipeline process_cdb, the command/arguments conversions  *)
(* and the execution stage.                                                *)
(*                                                                         *)
(* A Python str is a sequence of one-character strings, a list of tokens a *)
(* sequence of such sequences.  A compilation record (a Python dict) is a  *)
(* record whose field "keys" is the dict's key sequence in insertion       *)
(* order; a field whose key is absent holds <<>>.                          *)
(***************************************************************************)
EXTENDS Integers, Sequences, FiniteSets, TLC

VARIABLES
    data,      \* the record collection being processed
    input,     \* the collection as loaded (ghost: the caller's copy)
    trail,     \* the collection as it was before each stage applied (ghost)
    hist,      \* the stages applied so far, in order
    args,      \* the parsed command-line options (argparse namespace)
    err,       \* "none", or the exception that ended the run
    queue,     \* execute: indices submitted to the pool, not yet picked up
    running,   \* execute: indices a worker is running
    outcome,   \* execute: index -> how its command ended
    submits,   \* execute: index -> number of times it was submitted
    reports,   \* execute: the failure reports printed, in order
    xpc,       \* execute: position of the submitting thread
    mpc,       \* main: position after process_cdb ("idle" outside main)
    status,    \* main: <<>>, or <<the value main returned>>
    emitted,   \* main: what it wrote after process_cdb, <<sink, kind>> each
    tree,      \* the file system get_compile_dbs looks at
    dir,       \* get_compile_dbs: the directory it was given (args.dir)
    cdbs       \* get_compile_dbs: <<>>, or <<the paths it returned>>

vars == <<data, input, trail, hist, args, err,
          queue, running, outcome, submits, reports, xpc,
          mpc, status, emitted, tree, dir, cdbs>>

pipeVars == <<data, input, trail, hist, args, err>>
execVars == <<queue, running, outcome, submits, reports, xpc>>
locVars == <<tree, dir, cdbs>>
mainVars == <<mpc, status, emitted, locVars>>

---------------------------------------------------------------------------
(* Python str and list helpers *)

Range(s) == {s[i] : i \in 1..Len(s)}

Last(s) == s[Len(s)]

\* s.startswith(p)
StartsWith(s, p) == Len(p) <= Len(s) /\ SubSeq(s, 1, Len(p)) = p

\* p occurs in s at index i
OccursAt(p, s, i) == i + Len(p) - 1 <= Len(s) /\ SubSeq(s, i, i + Len(p) - 1) = p

\* p in s (substring)
Contains(s, p) == \E i \in 1..(Len(s) + 1) : OccursAt(p, s, i)

RECURSIVE Flatten(_)
Flatten(ss) == IF ss = <<>> THEN <<>> ELSE Head(ss) \o Flatten(Tail(ss))

\* sep.join(parts)
RECURSIVE Join(_, _)
Join(sep, parts) ==
    IF parts = <<>> THEN <<>>
    ELSE IF Len(parts) = 1 THEN parts[1]
    ELSE parts[1] \o sep \o Join(sep, Tail(parts))

\* s.split(sep) for a one-character separator: empty fields are kept
RECURSIVE SplitOn(_, _, _)
SplitOn(s, sep, cur) ==
    IF s = <<>> THEN <<cur>>
    ELSE IF Head(s) = sep THEN <<cur>> \o SplitOn(Tail(s), sep, <<>>)
    ELSE SplitOn(Tail(s), sep, Append(cur, Head(s)))

\* the characters str.split() and shlex treat as whitespace
Whitespace == {" ", "\t", "\n", "\r"}

\* s.split(): split on runs of whitespace, no empty fields
RECURSIVE SplitWs(_, _)
SplitWs(s, cur) ==
    IF s = <<>> THEN (IF cur = <<>> THEN <<>> ELSE <<cur>>)
    ELSE IF Head(s) \in Whitespace
         THEN (IF cur = <<>> THEN <<>> ELSE <<cur>>) \o SplitWs(Tail(s), <<>>)
    ELSE SplitWs(Tail(s), Append(cur, Head(s)))

\* s.replace(old, new), old non-empty: leftmost non-overlapping occurrences
RECURSIVE Replace(_, _, _)
Replace(s, old, new) ==
    IF s = <<>> THEN <<>>
    ELSE IF StartsWith(s, old)
         THEN new \o Replace(SubSeq(s, Len(old) + 1, Len(s)), old, new)
    ELSE <<Head(s)>> \o Replace(Tail(s), old, new)

\* list(filter(None, tokens)): drop the empty strings
DropEmpty(toks) == SelectSeq(toks, LAMBDA t : t # <<>>)

---------------------------------------------------------------------------
(* shlex.quote, shlex.join, shlex.split *)

\* the characters shlex.quote leaves unquoted: [\w@%+=:,./-] under re.ASCII
SafeChars ==
    {"a", "b", "c", "d", "e", "f", "g", "h", "i", "j", "k", "l", "m", "n",
     "o", "p", "q", "r", "s", "t", "u", "v", "w", "x", "y", "z",
     "A", "B", "C", "D", "E", "F", "G", "H", "I", "J", "K", "L", "M", "N",
     "O", "P", "Q", "R", "S", "T", "U", "V", "W", "X", "Y", "Z",
     "0", "1", "2", "3", "4", "5", "6", "7", "8", "9", "_",
     "@", "%", "+", "=", ":", ",", ".", "/", "-"}

Quotes == {"'", "\""}

\* shlex.quote(s)
ShlexQuote(s) ==
    IF s = <<>> THEN <<"'", "'">>
    ELSE IF \A i \in 1..Len(s) : s[i] \in SafeChars THEN s
    ELSE <<"'">> \o Replace(s, <<"'">>, <<"'", "\"", "'", "\"", "'">>) \o <<"'">>

\* shlex.join(tokens)
ShlexJoin(toks) == Join(<<" ">>, [i \in 1..Len(toks) |-> ShlexQuote(toks[i])])

\* shlex.split(s): the posix lexer with whitespace_split and no commenters.
\* st is the lexer state (" ", "a", a quote character or the escape
\* character), esc the state an escape returns to, tok the token being read,
\* quoted whether the token met a quote, out the tokens read so far.
\* The result is [ok |-> TRUE, toks |-> ...] or, for ValueError, ok |-> FALSE.
RECURSIVE ShlexRun(_, _, _, _, _, _, _)
ShlexRun(s, i, st, esc, tok, quoted, out) ==
    LET eof == i > Len(s)
        c == IF eof THEN "" ELSE s[i]
        emit == IF tok # <<>> \/ quoted THEN Append(out, tok) ELSE out
    IN
    IF st = " " THEN
        IF eof THEN [ok |-> TRUE, toks |-> out]
        ELSE IF c \in Whitespace THEN ShlexRun(s, i + 1, " ", " ", <<>>, FALSE, out)
        ELSE IF c = "\\" THEN ShlexRun(s, i + 1, "\\", "a", <<>>, FALSE, out)
        ELSE IF c \in Quotes THEN ShlexRun(s, i + 1, c, " ", <<>>, FALSE, out)
        ELSE ShlexRun(s, i + 1, "a", " ", <<c>>, FALSE, out)
    ELSE IF st \in Quotes THEN
        IF eof THEN [ok |-> FALSE, toks |-> <<>>]
        ELSE IF c = st THEN ShlexRun(s, i + 1, "a", esc, tok, TRUE, out)
        ELSE IF c = "\\" /\ st = "\"" THEN ShlexRun(s, i + 1, "\\", st, tok, TRUE, out)
        ELSE ShlexRun(s, i + 1, st, esc, Append(tok, c), TRUE, out)
    ELSE IF st = "\\" THEN
        IF eof THEN [ok |-> FALSE, toks |-> <<>>]
        ELSE IF esc \in Quotes /\ c # "\\" /\ c # esc
             THEN ShlexRun(s, i + 1, esc, esc, tok \o <<"\\", c>>, quoted, out)
        ELSE ShlexRun(s, i + 1, esc, esc, Append(tok, c), quoted, out)
    ELSE \* st = "a"
        IF eof THEN [ok |-> TRUE, toks |-> emit]
        ELSE IF c \in Whitespace THEN
            IF tok # <<>> \/ quoted
            THEN ShlexRun(s, i + 1, " ", " ", <<>>, FALSE, Append(out, tok))
            ELSE ShlexRun(s, i + 1, " ", esc, tok, quoted, out)
        ELSE IF c \in Quotes THEN ShlexRun(s, i + 1, c, esc, tok, quoted, out)
        ELSE IF c = "\\" THEN ShlexRun(s, i + 1, "\\", "a", tok, quoted, out)
        ELSE ShlexRun(s, i + 1, "a", esc, Append(tok, c), quoted, out)

ShlexSplit(s) == ShlexRun(s, 1, " ", " ", <<>>, FALSE, <<>>)

---------------------------------------------------------------------------
(* Python dict of one compilation record *)

HasKey(e, k) == k \in Range(e.keys)

\* entry[k] = v on the key sequence: a new key goes last
KeysSet(keys, k) == IF k \in Range(keys) THEN keys ELSE Append(keys, k)

\* del entry[k] on the key sequence
KeysDel(keys, k) == SelectSeq(keys, LAMBDA x : x # k)

\* a == b for two dicts: same keys whatever their order, same values
SameRecord(a, b) ==
    /\ Range(a.keys) = Range(b.keys)
    /\ a.directory = b.directory
    /\ a.file = b.file
    /\ a.command = b.command
    /\ a.arguments = b.arguments

---------------------------------------------------------------------------
(* os.path *)

\* os.path.isabs(p)
IsAbs(p) == p # <<>> /\ p[1] = "/"

\* os.path.join(a, p)
PathJoin(a, p) ==
    IF IsAbs(p) THEN p
    ELSE IF a = <<>> \/ Last(a) = "/" THEN a \o p
    ELSE a \o <<"/">> \o p

\* the component loop of posixpath.normpath; ini is initial_slashes
RECURSIVE NormComps(_, _, _)
NormComps(comps, new, ini) ==
    IF comps = <<>> THEN new
    ELSE LET c == Head(comps) IN
         IF c = <<>> \/ c = <<".">> THEN NormComps(Tail(comps), new, ini)
         ELSE IF \/ c # <<".", ".">>
                 \/ (ini = 0 /\ new = <<>>)
                 \/ (new # <<>> /\ Last(new) = <<".", ".">>)
              THEN NormComps(Tail(comps), Append(new, c), ini)
         ELSE IF new # <<>>
              THEN NormComps(Tail(comps), SubSeq(new, 1, Len(new) - 1), ini)
         ELSE NormComps(Tail(comps), new, ini)

\* os.path.normpath(p)
NormPath(p) ==
    IF p = <<>> THEN <<".">>
    ELSE LET ini == IF ~StartsWith(p, <<"/">>) THEN 0
                    ELSE IF StartsWith(p, <<"/", "/">>) /\ ~StartsWith(p, <<"/", "/", "/">>)
                         THEN 2 ELSE 1
             res == [k \in 1..ini |-> "/"]
                    \o Join(<<"/">>, NormComps(SplitOn(p, "/", <<>>), <<>>, ini))
         IN IF res = <<>> THEN <<".">> ELSE res

\* os.path.basename(p): what follows the last "/"
BaseName(p) == Last(SplitOn(p, "/", <<>>))

---------------------------------------------------------------------------
(* regular expressions: a pattern is a literal, a non-empty str *)

UpperCase == <<"A", "B", "C", "D", "E", "F", "G", "H", "I", "J", "K", "L", "M",
               "N", "O", "P", "Q", "R", "S", "T", "U", "V", "W", "X", "Y", "Z">>
LowerCase == <<"a", "b", "c", "d", "e", "f", "g", "h", "i", "j", "k", "l", "m",
               "n", "o", "p", "q", "r", "s", "t", "u", "v", "w", "x", "y", "z">>

LowerChar(c) ==
    IF \E i \in 1..Len(UpperCase) : UpperCase[i] = c
    THEN LowerCase[CHOOSE i \in 1..Len(UpperCase) : UpperCase[i] = c]
    ELSE c

Lower(s) == [i \in 1..Len(s) |-> LowerChar(s[i])]

\* re.search(regex, s) is not None
ReSearch(regex, s) == Contains(s, regex)

\* re.search(regex, s, re.IGNORECASE) is not None
ReSearchI(regex, s) == Contains(Lower(s), Lower(regex))

\* re.sub(regex, repl, s, flags=re.IGNORECASE)
RECURSIVE ReSubI(_, _, _)
ReSubI(regex, repl, s) ==
    IF s = <<>> THEN <<>>
    ELSE IF StartsWith(Lower(s), Lower(regex))
         THEN repl \o ReSubI(regex, repl, SubSeq(s, Len(regex) + 1, Len(s)))
    ELSE <<Head(s)>> \o ReSubI(regex, repl, Tail(s))

---------------------------------------------------------------------------
(* include flags *)

FlagI == <<"-", "I">>
FlagIsystem == <<"-", "i", "s", "y", "s", "t", "e", "m">>
FlagIquote == <<"-", "i", "q", "u", "o", "t", "e">>
FlagIdirafter == <<"-", "i", "d", "i", "r", "a", "f", "t", "e", "r">>

\* arg in ("-I", "-isystem", "-iquote", "-idirafter")
IncludeFlags == {FlagI, FlagIsystem, FlagIquote, FlagIdirafter}

\* the alternatives of re.compile("(-I)|(-iquote)|(-isystem)|(-idirafter)")
IncludeRegex == <<FlagI, FlagIquote, FlagIsystem, FlagIdirafter>>

\* regex.split(s): the text before each match, the group that matched, and
\* the text after the last match.  The groups that did not take part are
\* None in Python; normalize drops them with the empty strings.
RECURSIVE RegexSplit(_)
RegexSplit(s) ==
    LET hits == {j \in 1..Len(s) : \E k \in 1..Len(IncludeRegex) : OccursAt(IncludeRegex[k], s, j)}
    IN IF hits = {} THEN <<s>>
       ELSE LET j == CHOOSE x \in hits : \A y \in hits : x <= y
                k == CHOOSE x \in 1..Len(IncludeRegex) :
                         /\ OccursAt(IncludeRegex[x], s, j)
                         /\ \A y \in 1..(x - 1) : ~OccursAt(IncludeRegex[y], s, j)
                f == IncludeRegex[k]
            IN <<SubSeq(s, 1, j - 1), f>> \o RegexSplit(SubSeq(s, j + Len(f), Len(s)))

\* split_includes(s, regex)
split_includes(s) ==
    IF StartsWith(s, <<"-", "I">>) \/ StartsWith(s, <<"-", "i">>)
    THEN RegexSplit(s)
    ELSE <<s>>

---------------------------------------------------------------------------
(* operations on one record; each returns [err, e]: the exception raised   *)
(* ("none" when there is none) and the record as the operation left it     *)

Ok(e) == [err |-> "none", e |-> e]
Raise(x, e) == [err |-> x, e |-> e]

\* a loop "for entry in data: ..." that mutates the entries in place, r[i]
\* being what the body makes of d[i]: the loop stops at the first entry whose
\* body raises, and the entries after it are not changed
Each(d, r) ==
    LET bad == {i \in 1..Len(d) : r[i].err # "none"}
    IN IF bad = {} THEN [err |-> "none", data |-> [i \in 1..Len(d) |-> r[i].e]]
       ELSE LET k == CHOOSE x \in bad : \A y \in bad : x <= y
            IN [err |-> r[k].err,
                data |-> [i \in 1..Len(d) |-> IF i <= k THEN r[i].e ELSE d[i]]]

\* to_command_cdb's loop body without its test: the command is made of the
\* arguments whether the record has any or not
ToCommandEntryUnguarded(e) ==
    Ok([e EXCEPT !.command = ShlexJoin(e.arguments),
                 !.arguments = <<>>,
                 !.keys = KeysDel(KeysSet(e.keys, "command"), "arguments")])

\* the body of to_command_cdb's loop
ToCommandEntry(e) ==
    IF HasKey(e, "arguments") /\ e.arguments # <<>>
    THEN Ok([e EXCEPT !.command = ShlexJoin(e.arguments),
                      !.arguments = <<>>,
                      !.keys = KeysDel(KeysSet(e.keys, "command"), "arguments")])
    ELSE Ok(e)

to_command_cdb(d) == Each(d, [i \in 1..Len(d) |-> ToCommandEntry(d[i])])

\* to_arguments_cdb's loop body without its shlex branch: every command is
\* split on whitespace
ToArgumentsEntryWhitespaceOnly(e) ==
    IF HasKey(e, "command") /\ e.command # <<>>
    THEN Ok([e EXCEPT !.arguments = SplitWs(e.command, <<>>),
                      !.command = <<>>,
                      !.keys = KeysDel(KeysSet(e.keys, "arguments"), "command")])
    ELSE Ok(e)

\* the body of to_arguments_cdb's loop
ToArgumentsEntry(e) ==
    IF HasKey(e, "command") /\ e.command # <<>>
    THEN LET quoted == "'" \in Range(e.command) \/ "\"" \in Range(e.command)
             sp == ShlexSplit(e.command)
             toks == IF quoted THEN sp.toks ELSE SplitWs(e.command, <<>>)
         IN IF quoted /\ ~sp.ok THEN Raise("ValueError", e)
            ELSE Ok([e EXCEPT !.arguments = toks,
                              !.command = <<>>,
                              !.keys = KeysDel(KeysSet(e.keys, "arguments"), "command")])
    ELSE Ok(e)

to_arguments_cdb(d) == Each(d, [i \in 1..Len(d) |-> ToArgumentsEntry(d[i])])

\* the body of normalize's loop
NormalizeEntry(e) ==
    IF ~HasKey(e, "arguments") THEN Raise("KeyError", e)
    ELSE Ok([e EXCEPT !.arguments =
                DropEmpty(Flatten([i \in 1..Len(e.arguments) |-> split_includes(e.arguments[i])]))])

\* normalize that builds a new list of the records that came with
\* 'arguments' and leaves out the ones that came with a 'command'
normalizeArgumentsOnly(d) ==
    LET kept == SelectSeq(d, LAMBDA e : HasKey(e, "arguments"))
    IN Each(kept, [i \in 1..Len(kept) |-> NormalizeEntry(kept[i])])

\* normalize(data)
normalize(d) ==
    LET a == to_arguments_cdb(d)
    IN IF a.err # "none" THEN a ELSE Each(a.data, [i \in 1..Len(a.data) |-> NormalizeEntry(a.data[i])])

\* remove_files that looks at the first of the files only
remove_filesFirstOnly(d, files) ==
    SelectSeq(d, LAMBDA e : files = <<>> \/ e.file # files[1])

\* remove_files(data, files)
remove_files(d, files) == SelectSeq(d, LAMBDA e : e.file \notin Range(files))

\* include_files(data, files)
include_files(d, files) == SelectSeq(d, LAMBDA e : e.file \in Range(files))

\* filter_files with a search that tells the cases apart
filter_filesCaseSensitive(d, regex) == SelectSeq(d, LAMBDA e : ~ReSearch(regex, e.file))

\* filter_files(data, regex)
filter_files(d, regex) == SelectSeq(d, LAMBDA e : ~ReSearchI(regex, e.file))

\* filter_commands(data, regex, replacement)
filter_commands(d, regex, replacement) ==
    LET F(e) == IF ~HasKey(e, "command") THEN Raise("KeyError", e)
                ELSE Ok([e EXCEPT !.command = ReSubI(regex, replacement, e.command)])
    IN Each(d, [i \in 1..Len(d) |-> F(d[i])])

\* add_flags that appends the flags as the one token they came as
add_flagsUnsplit(d, flags) ==
    [i \in 1..Len(d) |-> [d[i] EXCEPT !.arguments = Append(@, flags)]]

\* add_flags(data, flags)
add_flags(d, flags) ==
    [i \in 1..Len(d) |-> [d[i] EXCEPT !.arguments = @ \o SplitWs(flags, <<>>)]]

\* change_compiler_path that puts new_path before the name as it came
change_compiler_pathAsGiven(d, new_path) ==
    LET F(e) == IF e.arguments = <<>> THEN Raise("IndexError", e)
                ELSE Ok([e EXCEPT !.arguments[1] =
                            new_path \o <<"/">> \o BaseName(e.arguments[1])])
    IN Each(d, [i \in 1..Len(d) |-> F(d[i])])

\* change_compiler_path(data, new_path)
change_compiler_path(d, new_path) ==
    LET F(e) == IF e.arguments = <<>> THEN Raise("IndexError", e)
                ELSE Ok([e EXCEPT !.arguments[1] =
                            NormPath(new_path) \o <<"/">> \o BaseName(e.arguments[1])])
    IN Each(d, [i \in 1..Len(d) |-> F(d[i])])

sGcc == <<"/", "g", "c", "c">>
sGpp == <<"/", "g", "+", "+">>
sClang == <<"/", "c", "l", "a", "n", "g">>
sClangpp == <<"/", "c", "l", "a", "n", "g", "+", "+">>

\* to_clang(data)
to_clang(d) ==
    LET F(e) == IF e.arguments = <<>> THEN Raise("IndexError", e)
                ELSE Ok([e EXCEPT !.arguments[1] =
                            Replace(Replace(e.arguments[1], sGcc, sClang), sGpp, sClangpp)])
    IN Each(d, [i \in 1..Len(d) |-> F(d[i])])

\* to_gcc(data)
to_gcc(d) ==
    LET F(e) == IF e.arguments = <<>> THEN Raise("IndexError", e)
                ELSE Ok([e EXCEPT !.arguments[1] =
                            Replace(Replace(e.arguments[1], sClangpp, sGpp), sClang, sGcc)])
    IN Each(d, [i \in 1..Len(d) |-> F(d[i])])

\* the scan of normalize_include_directories over one argument list
RECURSIVE NormIncScan(_, _, _)
NormIncScan(a, i, is_path) ==
    IF i > Len(a) THEN a
    ELSE IF a[i] \in IncludeFlags THEN NormIncScan(a, i + 1, TRUE)
    ELSE IF is_path THEN NormIncScan([a EXCEPT ![i] = NormPath(a[i])], i + 1, FALSE)
    ELSE NormIncScan(a, i + 1, is_path)

\* normalize_include_directories(data)
normalize_include_directories(d) ==
    [i \in 1..Len(d) |-> [d[i] EXCEPT !.arguments = NormIncScan(@, 1, TRUE)]]

\* absolute_include_directories' scan with is_path never reset: every token
\* after the first include flag is taken for a path
RECURSIVE AbsIncScanSticky(_, _, _, _)
AbsIncScanSticky(directory, a, i, is_path) ==
    IF i > Len(a) THEN a
    ELSE IF a[i] \in IncludeFlags THEN AbsIncScanSticky(directory, a, i + 1, TRUE)
    ELSE IF is_path
         THEN AbsIncScanSticky(directory,
                               IF ~IsAbs(a[i])
                               THEN [a EXCEPT ![i] = NormPath(PathJoin(directory, a[i]))]
                               ELSE a,
                               i + 1, TRUE)
    ELSE AbsIncScanSticky(directory, a, i + 1, is_path)

\* the scan of absolute_include_directories over one argument list
RECURSIVE AbsIncScan(_, _, _, _)
AbsIncScan(directory, a, i, is_path) ==
    IF i > Len(a) THEN a
    ELSE IF a[i] \in IncludeFlags THEN AbsIncScan(directory, a, i + 1, TRUE)
    ELSE IF is_path
         THEN AbsIncScan(directory,
                         IF ~IsAbs(a[i])
                         THEN [a EXCEPT ![i] = NormPath(PathJoin(directory, a[i]))]
                         ELSE a,
                         i + 1, FALSE)
    ELSE AbsIncScan(directory, a, i + 1, is_path)

\* absolute_include_directories(data)
absolute_include_directories(d) ==
    [i \in 1..Len(d) |-> [d[i] EXCEPT !.arguments = AbsIncScan(d[i].directory, @, 1, FALSE)]]

\* filter_include_directories' scan overwriting the matching path only, not
\* the flag before it
RECURSIVE FilterIncScanPathOnly(_, _, _, _)
FilterIncScanPathOnly(regex, a, i, is_path) ==
    IF i > Len(a) THEN a
    ELSE IF a[i] \in IncludeFlags THEN FilterIncScanPathOnly(regex, a, i + 1, TRUE)
    ELSE IF is_path
         THEN FilterIncScanPathOnly(regex,
                                    IF ReSearch(regex, a[i])
                                    THEN [a EXCEPT ![i] = <<>>]
                                    ELSE a,
                                    i + 1, FALSE)
    ELSE FilterIncScanPathOnly(regex, a, i + 1, is_path)

\* the scan of filter_include_directories over one argument list: the
\* matching path and the token before it are overwritten with ""
RECURSIVE FilterIncScan(_, _, _, _)
FilterIncScan(regex, a, i, is_path) ==
    IF i > Len(a) THEN a
    ELSE IF a[i] \in IncludeFlags THEN FilterIncScan(regex, a, i + 1, TRUE)
    ELSE IF is_path
         THEN FilterIncScan(regex,
                            IF ReSearch(regex, a[i])
                            THEN [a EXCEPT ![i] = <<>>, ![i - 1] = <<>>]
                            ELSE a,
                            i + 1, FALSE)
    ELSE FilterIncScan(regex, a, i + 1, is_path)

\* filter_include_directories(data, regex)
filter_include_directories(d, regex) ==
    [i \in 1..Len(d) |->
        [d[i] EXCEPT !.arguments = DropEmpty(FilterIncScan(regex, @, 1, FALSE))]]

---------------------------------------------------------------------------
(* json.dumps(d, sort_keys=True) and json.loads *)

\* the keys of a record in sorted order
SortedKeys == <<"arguments", "command", "directory", "file">>

Field(e, k) ==
    CASE k = "arguments" -> <<"list", e.arguments>>
      [] k = "command" -> <<"str", e.command>>
      [] k = "directory" -> <<"str", e.directory>>
      [] k = "file" -> <<"str", e.file>>

\* json.dumps(e) without sort_keys: the pairs in the dict's own key order
JsonDumpsUnsorted(e) == [i \in 1..Len(e.keys) |-> <<e.keys[i], Field(e, e.keys[i])>>]

\* json.dumps(e, sort_keys=True): the key/value pairs in key order
JsonDumps(e) ==
    LET ks == SelectSeq(SortedKeys, LAMBDA k : HasKey(e, k))
    IN [i \in 1..Len(ks) |-> <<ks[i], Field(e, ks[i])>>]

\* json.loads(t): the dict whose keys are in the order of the text
JsonLoads(t) ==
    LET val(k) == IF \E i \in 1..Len(t) : t[i][1] = k
                  THEN t[CHOOSE i \in 1..Len(t) : t[i][1] = k][2][2]
                  ELSE <<>>
    IN [keys |-> [i \in 1..Len(t) |-> t[i][1]],
        directory |-> val("directory"),
        file |-> val("file"),
        command |-> val("command"),
        arguments |-> val("arguments")]

\* the orders in which a set can be iterated
Orderings(S) ==
    {q \in [1..Cardinality(S) -> S] : \A i, j \in 1..Cardinality(S) : q[i] = q[j] => i = j}

---------------------------------------------------------------------------
(* process_cdb: the stages in the order of the code, one action each *)

Stages == <<"remove_files", "include_files", "filter_files", "filter",
            "normalize", "add_flags", "compiler_path", "to_clang", "to_gcc",
            "remove_duplicates", "filter_include_directories",
            "absolute_include_directories", "filter_include_directories_again",
            "normalize_include_directories", "command", "return">>

\* the stage conditions of a process_cdb that filters the include
\* directories once only, before absolute_include_directories
StageOnFilterOnce(s) ==
    CASE s = "remove_files" -> args.remove_files # <<>>
      [] s = "include_files" -> args.include_files # <<>>
      [] s = "filter_files" -> args.filter_files # <<>>
      [] s = "filter" -> args.filter # <<>>
      [] s = "normalize" -> TRUE
      [] s = "add_flags" -> args.add_flags # <<>>
      [] s = "compiler_path" -> args.compiler_path # <<>>
      [] s = "to_clang" -> args.clang
      [] s = "to_gcc" -> ~args.clang /\ args.gcc
      [] s = "remove_duplicates" -> args.remove_duplicates
      [] s = "filter_include_directories" -> args.filter_include_directories # <<>>
      [] s = "absolute_include_directories" -> args.absolute_include_directories
      [] s = "filter_include_directories_again" -> FALSE
      [] s = "normalize_include_directories" -> args.normalize_include_directories
      [] s = "command" -> args.command
      [] s = "return" -> TRUE

\* the condition of the "if" that guards a stage
StageOn(s) ==
    CASE s = "remove_files" -> args.remove_files # <<>>
      [] s = "include_files" -> args.include_files # <<>>
      [] s = "filter_files" -> args.filter_files # <<>>
      [] s = "filter" -> args.filter # <<>>
      [] s = "normalize" -> TRUE
      [] s = "add_flags" -> args.add_flags # <<>>
      [] s = "compiler_path" -> args.compiler_path # <<>>
      [] s = "to_clang" -> args.clang
      [] s = "to_gcc" -> ~args.clang /\ args.gcc
      [] s = "remove_duplicates" -> args.remove_duplicates
      [] s = "filter_include_directories" -> args.filter_include_directories # <<>>
      [] s = "absolute_include_directories" -> args.absolute_include_directories
      [] s = "filter_include_directories_again" ->
            args.absolute_include_directories /\ args.filter_include_directories # <<>>
      [] s = "normalize_include_directories" -> args.normalize_include_directories
      [] s = "command" -> args.command
      [] s = "return" -> TRUE

StageIndex(s) == CHOOSE k \in 1..Len(Stages) : Stages[k] = s

\* how far process_cdb has come
Pos == IF hist = <<>> THEN 0 ELSE StageIndex(Last(hist))

Returned == hist # <<>> /\ Last(hist) = "return"

\* the next stage whose condition holds
NextStage ==
    LET later == {k \in (Pos + 1)..Len(Stages) : StageOn(Stages[k])}
    IN Stages[CHOOSE k \in later : \A j \in later : k <= j]

\* process_cdb runs stage s, which leaves r = [err, data]
Step(s, r) ==
    /\ StageOn(s)
    /\ err = "none"
    /\ ~Returned
    /\ NextStage = s
    /\ data' = r.data
    /\ err' = r.err
    /\ trail' = Append(trail, data)
    /\ hist' = Append(hist, s)
    /\ UNCHANGED <<input, args, execVars, mainVars>>

NoErr(d) == [err |-> "none", data |-> d]

\* x.strip()
RECURSIVE LStrip(_)
LStrip(x) == IF x # <<>> /\ Head(x) \in Whitespace THEN LStrip(Tail(x)) ELSE x

RECURSIVE RStrip(_)
RStrip(x) == IF x # <<>> /\ Last(x) \in Whitespace THEN RStrip(SubSeq(x, 1, Len(x) - 1)) ELSE x

Strip(x) == RStrip(LStrip(x))

\* [args.path_prefix + x.strip() for x in files]
Prefixed(files) == [i \in 1..Len(files) |-> args.path_prefix \o Strip(files[i])]

RemoveFiles == Step("remove_files", NoErr(remove_files(data, Prefixed(args.remove_files))))

IncludeFiles == Step("include_files", NoErr(include_files(data, Prefixed(args.include_files))))

FilterFiles == Step("filter_files", NoErr(filter_files(data, args.filter_files)))

\* data = to_command_cdb(data); data = filter_commands(data, ...)
Filter ==
    Step("filter", filter_commands(to_command_cdb(data).data, args.filter, args.replacement))

Normalize == Step("normalize", normalize(data))

AddFlags == Step("add_flags", NoErr(add_flags(data, args.add_flags)))

ChangeCompilerPath == Step("compiler_path", change_compiler_path(data, args.compiler_path))

ToClang == Step("to_clang", to_clang(data))

ToGcc == Step("to_gcc", to_gcc(data))

\* s = {json.dumps(d, sort_keys=True) for d in data}
\* data = [json.loads(t) for t in s]: the set is iterated in any order
RemoveDuplicates ==
    /\ args.remove_duplicates
    /\ \E q \in Orderings({JsonDumps(data[i]) : i \in 1..Len(data)}) :
           Step("remove_duplicates", NoErr([i \in 1..Len(q) |-> JsonLoads(q[i])]))

FilterIncludeDirectories ==
    Step("filter_include_directories",
         NoErr(filter_include_directories(data, args.filter_include_directories)))

AbsoluteIncludeDirectories ==
    Step("absolute_include_directories", NoErr(absolute_include_directories(data)))

FilterIncludeDirectoriesAgain ==
    Step("filter_include_directories_again",
         NoErr(filter_include_directories(data, args.filter_include_directories)))

NormalizeIncludeDirectories ==
    Step("normalize_include_directories", NoErr(normalize_include_directories(data)))

Command == Step("command", to_command_cdb(data))

Return == Step("return", NoErr(data))

Next ==
    \/ RemoveFiles
    \/ IncludeFiles
    \/ FilterFiles
    \/ Filter
    \/ Normalize
    \/ AddFlags
    \/ ChangeCompilerPath
    \/ ToClang
    \/ ToGcc
    \/ RemoveDuplicates
    \/ FilterIncludeDirectories
    \/ AbsoluteIncludeDirectories
    \/ FilterIncludeDirectoriesAgain
    \/ NormalizeIncludeDirectories
    \/ Command
    \/ Return

---------------------------------------------------------------------------
(* the inputs: a loaded collection and the options of one run *)

\* bounds of the model
MaxArgs == 2        \* tokens after the compiler in a generated record
MaxOptions == 2     \* options set on one command line
MaxRecords == 2     \* records of a collection drawn from Fixture
MaxFlat == 4        \* characters and token breaks of a conversion input
MaxSteps == 2       \* conversions applied in a row

tGcc == <<"/", "g", "c", "c">>
tA == <<"a">>
tDotA == <<".", "/", "a">>
tAbsB == <<"/", "b">>
tIa == <<"-", "I", "a">>
tIaIb == <<"-", "I", "a", "-", "I", "b">>
tQuote == <<"'">>
tFileX == <<"x", ".", "c">>
tFileY == <<"y", ".", "C">>
tDir == <<"/", "b">>

\* the tokens a generated record draws its arguments from
Vocabulary == {FlagI, FlagIsystem, tIa, tA, tDotA, tAbsB, tIaIb, tQuote}

\* the sequences over S of length at most n
SeqsUpTo(S, n) == UNION {[1..k -> S] : k \in 0..n}

ArgumentsKeys == <<"directory", "file", "arguments">>
CommandKeys == <<"directory", "command", "file">>

ArgumentsRecord(directory, file, toks) ==
    [keys |-> ArgumentsKeys, directory |-> directory, file |-> file,
     command |-> <<>>, arguments |-> toks]

CommandRecord(directory, file, command) ==
    [keys |-> CommandKeys, directory |-> directory, file |-> file,
     command |-> command, arguments |-> <<>>]

\* one record: a compiler and up to MaxArgs tokens, in either form (the
\* command is the tokens joined by spaces), or an empty command
GeneratedRecords ==
    LET lists == {<<tGcc>> \o l : l \in SeqsUpTo(Vocabulary, MaxArgs)}
    IN {ArgumentsRecord(tDir, tFileX, l) : l \in lists}
       \cup {CommandRecord(tDir, tFileX, Join(<<" ">>, l)) : l \in lists}
       \cup {CommandRecord(tDir, tFileX, <<>>)}

\* argparse's defaults
DefaultArgs ==
    [remove_files |-> <<>>, include_files |-> <<>>, path_prefix |-> <<>>,
     filter_files |-> <<>>, filter |-> <<>>, replacement |-> <<>>,
     add_flags |-> <<>>, compiler_path |-> <<>>, clang |-> FALSE, gcc |-> FALSE,
     remove_duplicates |-> FALSE, filter_include_directories |-> <<>>,
     absolute_include_directories |-> FALSE,
     normalize_include_directories |-> FALSE, command |-> FALSE,
     threads |-> 1, verbose |-> FALSE, run |-> FALSE,
     output |-> <<"/", "o">>]

\* the number of options a command line sets
OptionCount(a) ==
    LET n(b) == IF b THEN 1 ELSE 0
    IN n(a.remove_files # <<>>) + n(a.include_files # <<>>) + n(a.filter_files # <<>>)
       + n(a.filter # <<>>) + n(a.add_flags # <<>>) + n(a.compiler_path # <<>>)
       + n(a.clang) + n(a.gcc) + n(a.remove_duplicates)
       + n(a.filter_include_directories # <<>>) + n(a.absolute_include_directories)
       + n(a.normalize_include_directories) + n(a.command)

\* the command lines that set at most MaxOptions options, all of them among
\* `opts`: --clang and --gcc exclude each other (argparse group)
ArgsOver(opts) ==
    LET dom(o, set) == IF o \in opts THEN set ELSE {}
    IN {a \in [remove_files : {<<>>} \cup dom("remove_files", {<<tFileX>>}),
                include_files : {<<>>} \cup dom("include_files", {<<tFileX>>}),
                path_prefix : {<<>>},
                filter_files : {<<>>} \cup dom("filter_files", {<<"c">>}),
                filter : {<<>>} \cup dom("filter", {tGcc}),
                replacement : {<<>>},
                add_flags : {<<>>} \cup dom("add_flags", {tIa}),
                compiler_path : {<<>>} \cup dom("compiler_path", {<<"/", "o", "/">>}),
                clang : {FALSE} \cup dom("clang", {TRUE}),
                gcc : {FALSE} \cup dom("gcc", {TRUE}),
                remove_duplicates : {FALSE} \cup dom("remove_duplicates", {TRUE}),
                filter_include_directories :
                    {<<>>} \cup dom("filter_include_directories", {<<"b">>}),
                absolute_include_directories :
                    {FALSE} \cup dom("absolute_include_directories", {TRUE}),
                normalize_include_directories :
                    {FALSE} \cup dom("normalize_include_directories", {TRUE}),
                command : {FALSE} \cup dom("command", {TRUE}),
                threads : {1},
                verbose : {FALSE},
                run : {FALSE},
                output : {<<"/", "o">>}] :
            ~(a.clang /\ a.gcc) /\ OptionCount(a) <= MaxOptions}

AllOptions ==
    {"remove_files", "include_files", "filter_files", "filter", "add_flags",
     "compiler_path", "clang", "gcc", "remove_duplicates",
     "filter_include_directories", "absolute_include_directories",
     "normalize_include_directories", "command"}

\* the options whose stages rewrite one record's command
RecordOptions ==
    {"filter", "add_flags", "filter_include_directories",
     "absolute_include_directories", "normalize_include_directories", "command"}

ExecIdle ==
    /\ queue = <<>>
    /\ running = {}
    /\ outcome = <<>>
    /\ submits = <<>>
    /\ reports = <<>>
    /\ xpc = "idle"

\* main is not in the part after process_cdb
\* get_compile_dbs is not called: the databases were given as files
LocIdle ==
    /\ tree = [dbs |-> {}, link |-> <<>>, cwd |-> <<>>]
    /\ dir = [absolute |-> TRUE, parts |-> <<>>]
    /\ cdbs = <<>>

MainIdle ==
    /\ mpc = "idle"
    /\ status = <<>>
    /\ emitted = <<>>
    /\ LocIdle

PipeStart ==
    /\ input = data
    /\ trail = <<>>
    /\ hist = <<>>
    /\ err = "none"
    /\ ExecIdle
    /\ MainIdle

\* the records of the fixture: the same record under two key orders, a
\* record that differs from it in the spelling of one include path, and a
\* record in command form for another file
Fixture ==
    {ArgumentsRecord(tDir, tFileX, <<tGcc, FlagI, tA>>),
     [ArgumentsRecord(tDir, tFileX, <<tGcc, FlagI, tA>>)
        EXCEPT !.keys = <<"file", "arguments", "directory">>],
     ArgumentsRecord(tDir, tFileX, <<tGcc, FlagI, tDotA>>),
     CommandRecord(tDir, tFileY, Join(<<" ">>, <<tGcc, tIa>>))}

\* process_cdb(args, data) is entered with a collection of fixture records
\* and any options
Init ==
    /\ args \in ArgsOver(AllOptions)
    /\ data \in SeqsUpTo(Fixture, MaxRecords)
    /\ PipeStart

Spec == Init /\ [][Next]_vars

\* process_cdb(args, data) is entered with one generated record and the
\* options that rewrite a record's command; the other options are unset,
\* so their stages are skipped
InitRecord ==
    /\ args \in ArgsOver(RecordOptions)
    /\ \E r \in GeneratedRecords : data = <<r>>
    /\ PipeStart

NextRecord ==
    \/ Filter
    \/ Normalize
    \/ AddFlags
    \/ FilterIncludeDirectories
    \/ AbsoluteIncludeDirectories
    \/ FilterIncludeDirectoriesAgain
    \/ NormalizeIncludeDirectories
    \/ Command
    \/ Return

SpecRecord == InitRecord /\ [][NextRecord]_vars

---------------------------------------------------------------------------
(* the conversions on their own: to_command_cdb and to_arguments_cdb       *)
(* applied, in any order, to one record                                    *)

ConvChars == {"a", " ", "'", "\"", "\\"}

\* the token lists whose tokens, written one after the other with a break
\* between two tokens, take at most MaxFlat places: never the empty list
ConvTokenLists ==
    {SplitOn(f, "BREAK", <<>>) : f \in SeqsUpTo(ConvChars \cup {"BREAK"}, MaxFlat)}

InitConv ==
    /\ args = DefaultArgs
    /\ \/ \E l \in ConvTokenLists : data = <<ArgumentsRecord(tDir, tFileX, l)>>
       \/ \E c \in SeqsUpTo(ConvChars, MaxFlat) : data = <<CommandRecord(tDir, tFileX, c)>>
    /\ PipeStart

\* a caller applies conversion `name`, which leaves r = [err, data]
Convert(name, r) ==
    /\ err = "none"
    /\ Len(hist) < MaxSteps
    /\ data' = r.data
    /\ err' = r.err
    /\ trail' = Append(trail, data)
    /\ hist' = Append(hist, name)
    /\ UNCHANGED <<input, args, execVars, mainVars>>

ConvToCommand == Convert("to_command_cdb", to_command_cdb(data))

ConvToArguments == Convert("to_arguments_cdb", to_arguments_cdb(data))

NextConv == ConvToCommand \/ ConvToArguments

SpecConv == InitConv /\ [][NextConv]_vars

---------------------------------------------------------------------------
(* execute: a pool of args.threads workers runs the command of every       *)
(* record.  submits lists the indexes handed to the pool, queue the ones   *)
(* no worker has taken yet, running the ones a worker is running,          *)
(* outcome[i] how command i ended and reports what run printed.            *)

MaxCmds == 3
MaxThreads == 2

\* how a command can end: check_output returns, raises CalledProcessError
\* (a return code other than 0), or raises another exception (the program
\* could not be started)
Outcomes == {"ok", "nonzero", "error"}

\* "with ProcessPoolExecutor(max_workers=threads) as executor": the pool is
\* created and the loop of submissions begins
ExecEnter ==
    /\ mpc = "execute"
    /\ xpc = "idle"
    /\ xpc' = "submitting"
    /\ UNCHANGED <<pipeVars, mainVars, queue, running, outcome, submits, reports>>

\* one iteration of the loop: executor.submit(run, entry["arguments"], ...)
Submit ==
    /\ xpc = "submitting"
    /\ Len(submits) < Len(data)
    /\ LET index == Len(submits) + 1
       IN /\ submits' = Append(submits, index)
          /\ queue' = Append(queue, index)
          /\ outcome' = Append(outcome, "pending")
    /\ UNCHANGED <<pipeVars, mainVars, running, reports, xpc>>

\* the loop is over: leaving the "with" block calls shutdown(wait=True)
Shutdown ==
    /\ xpc = "submitting"
    /\ Len(submits) = Len(data)
    /\ xpc' = "waiting"
    /\ UNCHANGED <<pipeVars, mainVars, queue, running, outcome, submits, reports>>

\* a pool that starts a pending call of run whether a worker is free or not
StartUnbounded ==
    /\ queue # <<>>
    /\ running' = running \cup {Head(queue)}
    /\ queue' = Tail(queue)
    /\ UNCHANGED <<pipeVars, mainVars, outcome, submits, reports, xpc>>

\* a free worker takes the oldest pending call of run
Start ==
    /\ queue # <<>>
    /\ Cardinality(running) < args.threads
    /\ running' = running \cup {Head(queue)}
    /\ queue' = Tail(queue)
    /\ UNCHANGED <<pipeVars, mainVars, outcome, submits, reports, xpc>>

\* run's end where a command that did not end well makes the pool drop the
\* calls no worker has taken yet
FinishCancelling(index, o) ==
    /\ index \in running
    /\ running' = running \ {index}
    /\ outcome' = [outcome EXCEPT ![index] = o]
    /\ queue' = IF o = "ok" THEN queue ELSE <<>>
    /\ reports' = IF o = "nonzero" \/ (o = "ok" /\ args.verbose)
                  THEN Append(reports, <<index, o>>)
                  ELSE reports
    /\ UNCHANGED <<pipeVars, mainVars, submits, xpc>>

\* run(args, index, total, verbose) ends in its worker: a CalledProcessError
\* is caught and reported, a success is reported when verbose, any other
\* exception ends the call and stays in its future, which nobody reads
Finish(index, o) ==
    /\ index \in running
    /\ running' = running \ {index}
    /\ outcome' = [outcome EXCEPT ![index] = o]
    /\ reports' = IF o = "nonzero" \/ (o = "ok" /\ args.verbose)
                  THEN Append(reports, <<index, o>>)
                  ELSE reports
    /\ UNCHANGED <<pipeVars, mainVars, queue, submits, xpc>>

\* some running command ends, in one of the ways it can
Complete == \E index \in running : \E o \in Outcomes : Finish(index, o)

\* shutdown(wait=True) returns once no call is pending or running, and
\* execute returns
ExecReturn ==
    /\ xpc = "waiting"
    /\ queue = <<>>
    /\ running = {}
    /\ xpc' = "returned"
    /\ UNCHANGED <<pipeVars, mainVars, queue, running, outcome, submits, reports>>

\* execute(data, args.threads, args.verbose) is called on a normalized
\* collection with a pool of one worker or more
InitExec ==
    /\ \E t \in 1..MaxThreads : \E v \in BOOLEAN :
          args = [DefaultArgs EXCEPT !.threads = t, !.verbose = v]
    /\ \E n \in 0..MaxCmds :
          data = [i \in 1..n |-> ArgumentsRecord(tDir, tFileX, <<tGcc, FlagI, tA>>)]
    /\ input = data
    /\ trail = <<>>
    /\ hist = <<>>
    /\ err = "none"
    /\ ExecIdle
    /\ mpc = "execute"
    /\ status = <<>>
    /\ emitted = <<>>
    /\ LocIdle

NextExec ==
    \/ ExecEnter
    \/ Submit
    \/ Shutdown
    \/ Start
    \/ Complete
    \/ ExecReturn

\* every child process terminates, the pool's workers take pending calls
\* and the main thread runs on
SpecExec == InitExec /\ [][NextExec]_vars /\ WF_vars(NextExec)

---------------------------------------------------------------------------
(* main after process_cdb has returned: the database is written to the     *)
(* sink that args.output names, then, with --run, every command is run     *)

sStdout == <<"s", "t", "d", "o", "u", "t">>
sStderr == <<"s", "t", "d", "e", "r", "r">>
sNone == <<"n", "o", "n", "e">>

\* the values of --output: a file path, the three names the code knows, and
\* one of them in capitals
OutputTargets == {<<"/", "o">>, sStdout, sStderr, sNone, <<"S", "T", "D", "O", "U", "T">>}

\* create_file: args.output, in lower case, is none of stdout, stderr, none
CreateFile == Lower(args.output) \notin {sStdout, sStderr, sNone}

\* "if create_file: ... else: ...": the database goes to the file or is
\* printed; an empty database that would go to a file is an error, and main
\* returns 1
WriteOutput ==
    /\ mpc = "output"
    /\ IF CreateFile
       THEN IF data # <<>>
            THEN /\ emitted' = emitted
                               \o (IF args.verbose THEN <<<<"stdout", "note">>>> ELSE <<>>)
                               \o <<<<"file", "database">>>>
                 /\ mpc' = "run"
                 /\ status' = status
            ELSE /\ emitted' = Append(emitted, <<"stdout", "error">>)
                 /\ mpc' = "exit"
                 /\ status' = <<1>>
       ELSE /\ emitted' = IF args.output = sStdout
                          THEN Append(emitted, <<"stdout", "database">>)
                          ELSE IF args.output = sStderr
                          THEN Append(emitted, <<"stderr", "database">>)
                          ELSE emitted
            /\ mpc' = "run"
            /\ status' = status
    /\ UNCHANGED <<pipeVars, execVars, locVars>>

\* "if args.run: data = normalize(data)", and execute is called; without
\* --run main returns 0
RunStage ==
    /\ mpc = "run"
    /\ IF args.run
       THEN LET r == normalize(data)
            IN /\ data' = r.data
               /\ err' = r.err
               /\ mpc' = IF r.err = "none" THEN "execute" ELSE "raised"
               /\ status' = status
       ELSE /\ mpc' = "exit"
            /\ status' = <<0>>
            /\ UNCHANGED <<data, err>>
    /\ UNCHANGED <<input, trail, hist, args, execVars, emitted, locVars>>

\* a main that returns 1 when a command did not end well
MainReturnFailing ==
    /\ mpc = "execute"
    /\ xpc = "returned"
    /\ mpc' = "exit"
    /\ status' = IF \E i \in 1..Len(outcome) : outcome[i] # "ok" THEN <<1>> ELSE <<0>>
    /\ UNCHANGED <<pipeVars, execVars, emitted, locVars>>

\* execute has returned: "return 0"
MainReturn ==
    /\ mpc = "execute"
    /\ xpc = "returned"
    /\ mpc' = "exit"
    /\ status' = <<0>>
    /\ UNCHANGED <<pipeVars, execVars, emitted, locVars>>

\* the records process_cdb can return: in argument form, or in command
\* form with --command
ReturnedRecords ==
    {ArgumentsRecord(tDir, tFileX, <<tGcc, FlagI, tA>>),
     CommandRecord(tDir, tFileY, Join(<<" ">>, <<tGcc, tIa>>))}

\* process_cdb has returned a collection, which may be empty
InitMain ==
    /\ \E t \in 1..MaxThreads : \E v, r \in BOOLEAN : \E o \in OutputTargets :
          args = [DefaultArgs EXCEPT !.threads = t, !.verbose = v, !.run = r, !.output = o]
    /\ data \in SeqsUpTo(ReturnedRecords, MaxRecords)
    /\ input = data
    /\ trail = <<>>
    /\ hist = <<>>
    /\ err = "none"
    /\ ExecIdle
    /\ mpc = "output"
    /\ status = <<>>
    /\ emitted = <<>>
    /\ LocIdle

NextMain ==
    \/ WriteOutput
    \/ RunStage
    \/ ExecEnter
    \/ Submit
    \/ Shutdown
    \/ Start
    \/ Complete
    \/ ExecReturn
    \/ MainReturn

SpecMain == InitMain /\ [][NextMain]_vars

---------------------------------------------------------------------------
(* the toolchain switch on its own: to_clang and to_gcc applied, in any    *)
(* order, to one record in argument form                                   *)

\* first tokens: the four compiler names and another one, bare and behind a
\* directory, a name that begins with a compiler's, and directories named
\* like a compiler
CompilerTokens ==
    {<<"g", "c", "c">>,
     <<"g", "+", "+">>,
     <<"c", "l", "a", "n", "g">>,
     <<"c", "l", "a", "n", "g", "+", "+">>,
     <<"c", "c">>,
     <<"/", "g", "c", "c">>,
     <<"/", "g", "+", "+">>,
     <<"/", "c", "l", "a", "n", "g">>,
     <<"/", "c", "l", "a", "n", "g", "+", "+">>,
     <<"/", "c", "c">>,
     <<"/", "g", "c", "c", "x">>,
     <<"/", "g", "c", "c", "/", "c", "c">>,
     <<"/", "c", "l", "a", "n", "g", "/", "g", "c", "c">>,
     <<"/", "b", "/", "g", "+", "+">>}

InitCompiler ==
    /\ args = DefaultArgs
    /\ \E c \in CompilerTokens : \E rest \in {<<>>, <<tGcc>>} :
          data = <<ArgumentsRecord(tDir, tFileX, <<c>> \o rest)>>
    /\ PipeStart

CompToClang == Convert("to_clang", to_clang(data))

CompToGcc == Convert("to_gcc", to_gcc(data))

NextCompiler == CompToClang \/ CompToGcc

SpecCompiler == InitCompiler /\ [][NextCompiler]_vars

---------------------------------------------------------------------------
(* the selection of records by their file: process_cdb run with one of     *)
(* remove_files, include_files and filter_files                            *)

MaxFiles == 2

\* two records of the file x.c, one of the file y.C
FileRecords ==
    {ArgumentsRecord(tDir, tFileX, <<tGcc>>),
     ArgumentsRecord(tDir, tFileX, <<tGcc, tA>>),
     ArgumentsRecord(tDir, tFileY, <<tGcc>>)}

\* what --remove_files and --include_files can list: the files of the
\* records, one of them with blanks around it, the end of one of them (a
\* file's name once --path_prefix is put before it) and a file of no record
FileWords ==
    {tFileX, tFileY, <<" ", "y", ".", "C", " ">>, <<".", "c">>, <<"q">>}

\* the patterns of --filter_files: plain letters, in either case
FilePatterns == {<<"x">>, <<"C">>, <<"Y">>}

\* the command lines with one of the three options, and --path_prefix
FileArgs ==
    {DefaultArgs}
    \cup {[DefaultArgs EXCEPT !.remove_files = l, !.path_prefix = x] :
             l \in SeqsUpTo(FileWords, MaxFiles) \ {<<>>}, x \in {<<>>, <<"x">>}}
    \cup {[DefaultArgs EXCEPT !.include_files = l, !.path_prefix = x] :
             l \in SeqsUpTo(FileWords, MaxFiles) \ {<<>>}, x \in {<<>>, <<"x">>}}
    \cup {[DefaultArgs EXCEPT !.filter_files = r] : r \in FilePatterns}

InitFiles ==
    /\ args \in FileArgs
    /\ data \in SeqsUpTo(FileRecords, MaxRecords)
    /\ PipeStart

NextFiles ==
    \/ RemoveFiles
    \/ IncludeFiles
    \/ FilterFiles
    \/ Normalize
    \/ Return

SpecFiles == InitFiles /\ [][NextFiles]_vars

---------------------------------------------------------------------------
(* the added flags: process_cdb run with --add_flags alone                 *)

\* the characters of --add_flags: two letters, a blank and a tab
FlagChars == {"a", "b", " ", "\t"}

InitFlags ==
    /\ \E f \in SeqsUpTo(FlagChars, MaxFlat) : args = [DefaultArgs EXCEPT !.add_flags = f]
    /\ data \in SeqsUpTo(FileRecords, MaxRecords)
    /\ PipeStart

NextFlags ==
    \/ Normalize
    \/ AddFlags
    \/ Return

SpecFlags == InitFlags /\ [][NextFlags]_vars

---------------------------------------------------------------------------
(* the compiler path: process_cdb run with --compiler_path alone           *)

\* values of --compiler_path: with and without separators at the end, with
\* a doubled separator, the root, and with "." and ".." in them
CompilerPaths ==
    {<<"/", "o", "/">>,
     <<"/", "o">>,
     <<"o", "/", "/", "p">>,
     <<"/">>,
     <<".", ".", "/", "o">>,
     <<"/", "o", "/", ".", "/", "p", "/", ".", ".">>}

InitPath ==
    /\ \E x \in CompilerPaths : args = [DefaultArgs EXCEPT !.compiler_path = x]
    /\ \E c \in CompilerTokens : \E rest \in {<<>>, <<tGcc>>, <<FlagI, tA>>} :
          data = <<ArgumentsRecord(tDir, tFileX, <<c>> \o rest)>>
    /\ PipeStart

NextPath ==
    \/ Normalize
    \/ ChangeCompilerPath
    \/ Return

SpecPath == InitPath /\ [][NextPath]_vars

----------------------------------------------------------------------------
(* the include directories: process_cdb run with filter_include_directories
   and any of absolute_include_directories, normalize_include_directories
   and command, on one record *)

MaxIncludes == 3

\* the regex given to --filter_include_directories
IncludePattern == <<"b", "/", "a">>

\* an include flag, a relative path, an absolute path that is not
\* normalized, the same path normalized
IncludeTokens ==
    {FlagI, tA, <<"/", "b", "/", "/", "a">>, <<"/", "b", "/", "a">>}

InitIncludes ==
    /\ \E ab, no, co \in BOOLEAN :
          args = [DefaultArgs EXCEPT !.filter_include_directories = IncludePattern,
                                     !.absolute_include_directories = ab,
                                     !.normalize_include_directories = no,
                                     !.command = co]
    /\ \E rest \in SeqsUpTo(IncludeTokens, MaxIncludes) :
          data = <<ArgumentsRecord(tDir, tFileX, <<tGcc>> \o rest)>>
    /\ PipeStart

NextIncludes ==
    \/ Normalize
    \/ FilterIncludeDirectories
    \/ AbsoluteIncludeDirectories
    \/ FilterIncludeDirectoriesAgain
    \/ NormalizeIncludeDirectories
    \/ Command
    \/ Return

SpecIncludes == InitIncludes /\ [][NextIncludes]_vars

----------------------------------------------------------------------------
(* get_compile_dbs: the databases below a directory. A path is the sequence
   of its component names below "/"; a compile_commands.json is named by the
   directory that holds it. *)

MaxDepth == 2
MaxDbs == 2

\* the directory searched, /w/r, and the names of the directories below it
Root == <<"w", "r">>
LocNames == {"r", "a"}

\* the symbolic link /w/r/l, when the tree has one
LinkAt == Root \o <<"l">>

\* directories outside the searched one
Outside == {<<"w", "e">>, <<"e", "r">>}

\* the real directories: the searched one, those below it, those outside
Directories == {Root \o s : s \in SeqsUpTo(LocNames, MaxDepth)} \cup Outside

\* what the link can point to: nothing (no link), a directory outside, a
\* directory below the searched one
LinkTargets == {<<>>} \cup Outside \cup {Root \o <<"a">>}

\* the ways the searched directory is given: "/w/r", "r" from /w, "." from /w/r
Spellings ==
    {[absolute |-> TRUE, parts |-> Root],
     [absolute |-> FALSE, parts |-> <<"r">>],
     [absolute |-> FALSE, parts |-> <<>>]}

\* os.path.abspath(directory), from the working directory cwd
AbsPath(d, cwd) == IF d.absolute THEN d.parts ELSE cwd \o d.parts

\* a file system: the real directories that hold a compile_commands.json,
\* the target of the link, the working directory
Trees ==
    {[dbs |-> s, link |-> l, cwd |-> c] :
        s \in {x \in SUBSET Directories : Cardinality(x) <= MaxDbs},
        l \in LinkTargets,
        c \in {<<"w">>, Root}}

\* glob("<root>/**/compile_commands.json"): the directories at any depth
\* below root, root included, that hold the file, reached through real
\* directories or through the link
Glob(root, t) ==
    {d \in t.dbs : StartsWith(d, root)}
    \cup (IF t.link # <<>> /\ StartsWith(LinkAt, root)
          THEN {LinkAt \o SubSeq(d, Len(t.link) + 1, Len(d)) :
                    d \in {x \in t.dbs : StartsWith(x, t.link)}}
          ELSE {})

\* os.path.realpath(p): the link is replaced by what it points to
RealPath(p, t) ==
    IF t.link # <<>> /\ StartsWith(p, LinkAt)
    THEN t.link \o SubSeq(p, Len(LinkAt) + 1, Len(p))
    ELSE p

\* get_compile_dbs(directory): the real paths of the matches, as a set, less
\* those whose directory is named as the last part of `directory`; with no
\* last part, Path(directory).parts[-1] raises at the first match
get_compile_dbs(d, t) ==
    LET paths == {RealPath(p, t) : p \in Glob(AbsPath(d, t.cwd), t)}
    IN IF paths # {} /\ d.parts = <<>>
       THEN [err |-> "IndexError", paths |-> {}]
       ELSE [err |-> "none", paths |-> {p \in paths : Last(p) # Last(d.parts)}]

\* "cdbs = get_compile_dbs(args.dir)"
GetCompileDbs ==
    /\ cdbs = <<>>
    /\ err = "none"
    /\ LET r == get_compile_dbs(dir, tree)
       IN /\ err' = r.err
          /\ cdbs' = IF r.err = "none" THEN <<r.paths>> ELSE cdbs
    /\ UNCHANGED <<data, input, trail, hist, args, execVars, mpc, status, emitted,
                   tree, dir>>

\* a tree, and the searched directory given in one of its spellings from a
\* working directory that makes it /w/r
InitLocate ==
    /\ tree \in Trees
    /\ dir \in Spellings
    /\ AbsPath(dir, tree.cwd) = Root
    /\ cdbs = <<>>
    /\ args = DefaultArgs
    /\ data = <<>>
    /\ input = data
    /\ trail = <<>>
    /\ hist = <<>>
    /\ err = "none"
    /\ ExecIdle
    /\ mpc = "idle"
    /\ status = <<>>
    /\ emitted = <<>>

NextLocate == GetCompileDbs

SpecLocate == InitLocate /\ [][NextLocate]_vars

----------------------------------------------------------------------------
(* the standalone script compile-commands.py: its compiler switch, on the
   'command' string of each record *)

\* to_clang(data) of the script
script_to_clang(d) ==
    LET F(e) == IF ~HasKey(e, "command") THEN Raise("KeyError", e)
                ELSE Ok([e EXCEPT !.command =
                            Replace(Replace(e.command, sGcc, sClang), sGpp, sClangpp)])
    IN Each(d, [i \in 1..Len(d) |-> F(d[i])])

\* to_gcc(data) of the script
script_to_gcc(d) ==
    LET F(e) == IF ~HasKey(e, "command") THEN Raise("KeyError", e)
                ELSE Ok([e EXCEPT !.command =
                            Replace(Replace(e.command, sClang, sGcc), sClangpp, sGcc)])
    IN Each(d, [i \in 1..Len(d) |-> F(d[i])])

\* the directories of the compilers, the compilers, what follows them
ScriptDirs == {<<>>, <<"/", "b">>}
ScriptCompilers == {sGcc, sGpp, sClang, sClangpp, <<"/", "c", "c">>}
ScriptTails == {<<>>, <<" ", "a">>, <<" ", "-", "I", "/", "c", "l", "a", "n", "g">>}

\* one record with a 'command', or one with 'arguments'
InitScript ==
    /\ args = DefaultArgs
    /\ \/ \E p \in ScriptDirs : \E c \in ScriptCompilers : \E t \in ScriptTails :
             data = <<CommandRecord(tDir, tFileX, p \o c \o t)>>
       \/ data = <<ArgumentsRecord(tDir, tFileX, <<sClang>>)>>
    /\ PipeStart

ScriptToClang == Convert("script_to_clang", script_to_clang(data))

ScriptToGcc == Convert("script_to_gcc", script_to_gcc(data))

NextScript == ScriptToClang \/ ScriptToGcc

SpecScript == InitScript /\ [][NextScript]_vars

---------------------------------------------------------------------------
(* claims *)

\* the last stage applied is s
At(s) == hist # <<>> /\ Last(hist) = s

\* the collection as it was before the last stage applied
Before == trail[Len(trail)]

\* t is an include flag written together with a non-empty path
IsConcatenated(t) == \E f \in IncludeFlags : StartsWith(t, f) /\ Len(t) > Len(f)

\* a[j] is the path of an include flag: it follows a flag and is no flag
IsPathAt(a, j) == j > 1 /\ a[j - 1] \in IncludeFlags /\ a[j] \notin IncludeFlags

\* the list a without the places in drop
Without(a, drop) ==
    LET idx == SelectSeq([k \in 1..Len(a) |-> k], LAMBDA k : k \notin drop)
    IN [m \in 1..Len(idx) |-> a[idx[m]]]

\* the places of the include paths of a that match regex, and of their flags
MatchingPairs(a, regex) ==
    {j \in 1..Len(a) :
        \/ IsPathAt(a, j) /\ ReSearch(regex, a[j])
        \/ j < Len(a) /\ IsPathAt(a, j + 1) /\ ReSearch(regex, a[j + 1])}

\* a with every include path that is not absolute replaced by the
\* normalized join of directory and the path
Absolutized(directory, a) ==
    [j \in 1..Len(a) |->
        IF IsPathAt(a, j) /\ ~IsAbs(a[j]) THEN NormPath(PathJoin(directory, a[j])) ELSE a[j]]

\* d and b differ at most in their arguments
SameButArguments(d, b) ==
    /\ d.keys = b.keys
    /\ d.directory = b.directory
    /\ d.file = b.file
    /\ d.command = b.command

\* C1: a record in argument form with a non-empty token list, converted by
\* to_command_cdb and then by to_arguments_cdb, is in argument form again
\* with exactly its original tokens: no exception, same tokens, same
\* boundaries, same order.
C1_RoundTripFromArguments ==
    (/\ hist = <<"to_command_cdb", "to_arguments_cdb">>
     /\ HasKey(input[1], "arguments")
     /\ input[1].arguments # <<>>)
    => /\ err = "none"
       /\ HasKey(data[1], "arguments")
       /\ ~HasKey(data[1], "command")
       /\ data[1].arguments = input[1].arguments

\* C1 witness: the round trip of two tokens, one of them holding a quote
\* and the other a space, has been made.
C1_Witness ==
    /\ hist = <<"to_command_cdb", "to_arguments_cdb">>
    /\ HasKey(input[1], "arguments")
    /\ Len(input[1].arguments) = 2
    /\ \E i, j \in 1..2 : /\ "'" \in Range(input[1].arguments[i])
                          /\ " " \in Range(input[1].arguments[j])
    /\ data[1].arguments = input[1].arguments


\* C2: after normalize every record has 'arguments' and no 'command',
\* whatever command string (the empty one included) or arguments list it
\* came with, and no record ever holds both keys.  (A command that cannot
\* be tokenized is left to C14.)
C2_NormalizeLeavesArgumentForm ==
    /\ \A i \in 1..Len(data) : ~(HasKey(data[i], "arguments") /\ HasKey(data[i], "command"))
    /\ (At("normalize") /\ err # "ValueError")
       => /\ err = "none"
          /\ \A i \in 1..Len(data) :
                HasKey(data[i], "arguments") /\ ~HasKey(data[i], "command")

\* the tokens of toks with each <flag><path> token replaced by flag, path
ExpectedSplit(toks) ==
    Flatten([k \in 1..Len(toks) |->
        IF IsConcatenated(toks[k])
        THEN LET f == CHOOSE f \in IncludeFlags : StartsWith(toks[k], f)
             IN <<f, SubSeq(toks[k], Len(f) + 1, Len(toks[k]))>>
        ELSE <<toks[k]>>])

\* C3: normalize leaves the token list of the record with each token
\* <include flag><non-empty path> replaced by the two tokens flag, path and
\* every other token as it was, in place.
C3_SplitIsExact ==
    (At("normalize") /\ err = "none")
    => \A i \in 1..Len(data) :
          data[i].arguments = ExpectedSplit(ToArgumentsEntry(Before[i]).e.arguments)

\* C4: in the collection process_cdb returns in argument form, whatever the
\* options, no token is an include flag written together with its path.
C4_IncludeFlagsSeparated ==
    (Returned /\ err = "none" /\ ~args.command)
    => \A i \in 1..Len(data) : \A j \in 1..Len(data[i].arguments) :
          ~IsConcatenated(data[i].arguments[j])

\* C5: absolute_include_directories replaces every include path (the token
\* after an include flag) that is not absolute by the normalized join of the
\* record's directory and the path, and leaves every other token, the flags,
\* 'file' and 'directory' as they were.
C5_AbsoluteIncludeDirectories ==
    At("absolute_include_directories")
    => /\ Len(data) = Len(Before)
       /\ \A i \in 1..Len(data) :
             /\ SameButArguments(data[i], Before[i])
             /\ data[i].arguments = Absolutized(Before[i].directory, Before[i].arguments)

\* C5 witness: the stage has made the relative include path ./a of a record
\* of directory /b absolute and normalized, and left the rest as it was.
C5_Witness ==
    /\ At("absolute_include_directories")
    /\ Before[1].directory = tDir
    /\ Before[1].arguments = <<tGcc, FlagI, tDotA>>
    /\ data[1].arguments = <<tGcc, FlagI, <<"/", "b", "/", "a">>>>

\* C6: filter_include_directories removes every include flag whose path
\* matches the regex together with that path, and nothing else: a flag whose
\* path does not match is still followed by its path, and no flag or path is
\* left without the other.
C6_FilterRemovesPairs ==
    (At("filter_include_directories") \/ At("filter_include_directories_again"))
    => /\ Len(data) = Len(Before)
       /\ \A i \in 1..Len(data) :
             /\ SameButArguments(data[i], Before[i])
             /\ data[i].arguments =
                   Without(Before[i].arguments,
                           MatchingPairs(Before[i].arguments, args.filter_include_directories))

\* C6 witness: the stage has removed one flag with its matching path and
\* kept another flag with its path.
C6_Witness ==
    /\ At("filter_include_directories")
    /\ Len(data[1].arguments) = Len(Before[1].arguments) - 2
    /\ \E j \in 1..Len(data[1].arguments) : IsPathAt(data[1].arguments, j)

\* C7: with filter_include_directories and absolute_include_directories both
\* set, process_cdb filters the include directories, makes them absolute and
\* filters them again, in this order, so that an include path recorded as
\* relative whose absolute form matches the regex is gone with its flag.
C7_FilterAroundAbsolute ==
    LET both == args.filter_include_directories # <<>> /\ args.absolute_include_directories
        k == Len(hist)
    IN /\ (Returned /\ both) => "filter_include_directories_again" \in Range(hist)
       /\ At("filter_include_directories_again")
          => /\ both
             /\ k >= 3
             /\ hist[k - 2] = "filter_include_directories"
             /\ hist[k - 1] = "absolute_include_directories"
             /\ \A i \in 1..Len(data) :
                   LET a == Absolutized(trail[k - 1][i].directory, trail[k - 1][i].arguments)
                   IN data[i].arguments =
                         Without(a, MatchingPairs(a, args.filter_include_directories))

\* C7 witness: a relative include path that the first filter kept has been
\* made absolute and removed, with its flag, by the second.
C7_Witness ==
    /\ At("filter_include_directories_again")
    /\ trail[Len(hist) - 1][1].arguments = <<tGcc, FlagI, tA>>
    /\ data[1].arguments = <<tGcc>>


\* C8: the remove_duplicates step leaves each distinct record of the
\* collection (all fields compared, whatever the order of the keys) exactly
\* once and no record that was not there; a second application would keep
\* the number of records.
C8_RemoveDuplicates ==
    At("remove_duplicates")
    => /\ \A i \in 1..Len(Before) : \E j \in 1..Len(data) : SameRecord(Before[i], data[j])
       /\ \A j \in 1..Len(data) : \E i \in 1..Len(Before) : SameRecord(data[j], Before[i])
       /\ \A j, k \in 1..Len(data) : SameRecord(data[j], data[k]) => j = k
       /\ Cardinality({JsonDumps(data[j]) : j \in 1..Len(data)}) = Len(data)

\* C8 witness: of two records that differ in the order of their keys only,
\* the step has left one.
C8_Witness ==
    /\ At("remove_duplicates")
    /\ Len(Before) = 2
    /\ Before[1].keys # Before[2].keys
    /\ SameRecord(Before[1], Before[2])
    /\ Len(data) = 1

\* C9: with remove_duplicates set, no two records of the collection that
\* process_cdb returns are identical, whatever the other options.
C9_NoDuplicatesReturned ==
    (Returned /\ err = "none" /\ args.remove_duplicates)
    => \A j, k \in 1..Len(data) : SameRecord(data[j], data[k]) => j = k

\* a call that was submitted is pending, running or over, and only one of
\* the three
Accounted(index) ==
    /\ (index \in Range(queue)) # (index \in running \/ outcome[index] # "pending")
    /\ ~(index \in running /\ outcome[index] # "pending")

\* C10: execute submits the command of every record exactly once; a command
\* that ends badly takes no pending or running command away; execute
\* returns, and only when every command is over.
C10_ExecuteRunsAll ==
    /\ [](/\ \A k \in 1..Len(submits) : submits[k] = k
          /\ Len(submits) <= Len(data)
          /\ \A index \in 1..Len(submits) : Accounted(index)
          /\ xpc = "returned"
             => /\ Len(submits) = Len(data)
                /\ \A index \in 1..Len(data) : outcome[index] \in Outcomes)
    /\ <>(xpc = "returned")

\* C10 witness: execute has returned after a command that could not be
\* started, a later one that returned non-zero and a still later one that
\* ran well.
C10_Witness ==
    /\ xpc = "returned"
    /\ Len(data) = 3
    /\ outcome = <<"error", "nonzero", "ok">>

\* C11: every command that execute has run and that returned a code other
\* than 0 or could not be started has a failure report of its own.
C11_EveryFailureReported ==
    \A index \in 1..Len(outcome) :
        outcome[index] \in {"nonzero", "error"}
        => \E k \in 1..Len(reports) : reports[k][1] = index /\ reports[k][2] # "ok"

\* C12: once main has called execute (--run), the value it returns is 0,
\* whichever commands returned a code other than 0 or could not be started.
C12_RunReturnsZero ==
    (status # <<>> /\ xpc # "idle") => status = <<0>>

\* C12 witness: main has returned 0 after a command that could not be
\* started and one that returned a code other than 0.
C12_Witness ==
    /\ mpc = "exit"
    /\ status = <<0>>
    /\ args.run
    /\ outcome = <<"error", "nonzero">>

\* C13: when the collection process_cdb returned is empty, main writes an
\* error and returns a value other than 0, whatever --output names.
C13_EmptyResultIsAnError ==
    (mpc = "exit" /\ input = <<>>)
    => /\ status # <<0>>
       /\ \E k \in 1..Len(emitted) : emitted[k][2] = "error"

\* C14: a command string with unbalanced quotes does not end process_cdb
\* with an uncaught exception: no stage leaves the run ended by the
\* ValueError of the tokenizer.
C14_MalformedCommandContained == err # "ValueError"

\* the directory component of path p, its last "/" included
DirPart(p) == SubSeq(p, 1, Len(p) - Len(BaseName(p)))

\* the compiler name to_clang is to give for the name b
ClangName(b) ==
    IF b = <<"g", "c", "c">> THEN <<"c", "l", "a", "n", "g">>
    ELSE IF b = <<"g", "+", "+">> THEN <<"c", "l", "a", "n", "g", "+", "+">>
    ELSE b

\* the compiler name to_gcc is to give for the name b
GccName(b) ==
    IF b = <<"c", "l", "a", "n", "g">> THEN <<"g", "c", "c">>
    ELSE IF b = <<"c", "l", "a", "n", "g", "+", "+">> THEN <<"g", "+", "+">>
    ELSE b

\* C15: to_clang (to_gcc) changes the base name of the first token only:
\* gcc and g++ become clang and clang++ (and back), any other name stays,
\* with or without a directory before it; the directory of the first token
\* and every other token stay.
C15_OnlyTheCompilerName ==
    (Len(hist) = 1 /\ hist[1] \in {"to_clang", "to_gcc"})
    => LET old == input[1].arguments
           name == IF hist[1] = "to_clang" THEN ClangName(BaseName(old[1]))
                   ELSE GccName(BaseName(old[1]))
       IN /\ err = "none"
          /\ SameButArguments(data[1], input[1])
          /\ data[1].arguments = <<DirPart(old[1]) \o name>> \o Tail(old)

\* C16: for a first token <dir>/<name> with name one of gcc, g++, clang,
\* clang++, to_gcc after to_clang gives the first token back.
C16_SwitchAndBack ==
    (/\ hist = <<"to_clang", "to_gcc">>
     /\ DirPart(input[1].arguments[1]) # <<>>
     /\ BaseName(input[1].arguments[1]) \in
           {<<"g", "c", "c">>, <<"g", "+", "+">>,
            <<"c", "l", "a", "n", "g">>, <<"c", "l", "a", "n", "g", "+", "+">>})
    => data[1].arguments[1] = input[1].arguments[1]

\* C17: normalize_include_directories changes a token only if the token
\* before it is an include flag; every other token, the first one (the
\* compiler) included, stays, and a changed token is the normalized path.
C17_OnlyIncludePathsNormalized ==
    At("normalize_include_directories")
    => \A i \in 1..Len(data) :
          /\ SameButArguments(data[i], Before[i])
          /\ Len(data[i].arguments) = Len(Before[i].arguments)
          /\ \A j \in 1..Len(data[i].arguments) :
                data[i].arguments[j] # Before[i].arguments[j]
                => /\ j > 1
                   /\ Before[i].arguments[j - 1] \in IncludeFlags
                   /\ data[i].arguments[j] = NormPath(Before[i].arguments[j])

\* the pattern matches somewhere in file when the case of the letters is
\* not told apart
MatchesAnyCase(pattern, file) ==
    \E p \in 1..(Len(file) - Len(pattern) + 1) :
        \A k \in 1..Len(pattern) : LowerChar(file[p + k - 1]) = LowerChar(pattern[k])

\* the records of d that `keep` holds for, as they are and in their order
Selected(d, keep(_)) == Without(d, {i \in 1..Len(d) : ~keep(d[i])})

\* C18: filter_files leaves exactly the records whose file the regex does
\* not match, the case of the letters not told apart, as they were and in
\* the order they had.
C18_FilterFiles ==
    At("filter_files")
    => /\ err = "none"
       /\ data = Selected(Before, LAMBDA e : ~MatchesAnyCase(args.filter_files, e.file))

\* C18 witness: the pattern Y has removed the record of the file y.C and
\* kept the record of x.c.
C18_Witness ==
    /\ At("filter_files")
    /\ Len(Before) = 2
    /\ Before[1].file = tFileX
    /\ Before[2].file = tFileY
    /\ args.filter_files = <<"Y">>
    /\ data = <<Before[1]>>

\* the paths process_cdb hands to remove_files and include_files: each word
\* of the option without the blanks around it, after --path_prefix
GivenPaths(words) ==
    {args.path_prefix \o Strip(words[i]) : i \in 1..Len(words)}

\* C19: remove_files leaves exactly the records whose file is not among the
\* paths, include_files exactly those whose file is, in input order and as
\* they were; a path of no record changes nothing.
C19_RemoveAndIncludeFiles ==
    /\ At("remove_files")
       => /\ err = "none"
          /\ data = Selected(Before, LAMBDA e : e.file \notin GivenPaths(args.remove_files))
    /\ At("include_files")
       => /\ err = "none"
          /\ data = Selected(Before, LAMBDA e : e.file \in GivenPaths(args.include_files))

\* C19 witness: remove_files has removed the two records of x.c, named
\* second in a list that names a file of no record first.
C19_Witness ==
    /\ At("remove_files")
    /\ args.remove_files = <<<<"q">>, tFileX>>
    /\ Len(Before) = 2
    /\ Before[1].file = tFileX
    /\ Before[2].file = tFileX
    /\ Before[1] # Before[2]
    /\ data = <<>>

\* the words of s, in order: its longest stretches without whitespace
Words(s) ==
    LET starts == {p \in 1..Len(s) :
                      s[p] \notin Whitespace /\ (p = 1 \/ s[p - 1] \in Whitespace)}
        stop(p) == CHOOSE q \in p..Len(s) :
                      /\ \A k \in p..q : s[k] \notin Whitespace
                      /\ q = Len(s) \/ s[q + 1] \in Whitespace
        nth(n) == CHOOSE p \in starts : Cardinality({x \in starts : x < p}) = n - 1
    IN [n \in 1..Cardinality(starts) |-> SubSeq(s, nth(n), stop(nth(n)))]

\* C20: add_flags puts the words of the flags, in order, at the end of the
\* arguments of every record and changes nothing else; flags of whitespace
\* only change nothing at all.
C20_AddFlags ==
    At("add_flags")
    => /\ err = "none"
       /\ Len(data) = Len(Before)
       /\ \A i \in 1..Len(data) :
             /\ SameButArguments(data[i], Before[i])
             /\ data[i].arguments = Before[i].arguments \o Words(args.add_flags)
       /\ (\A k \in 1..Len(args.add_flags) : args.add_flags[k] \in Whitespace)
          => data = Before

\* C20 witness: flags of two words with whitespace around them have been
\* added to two records.
C20_Witness ==
    /\ At("add_flags")
    /\ args.add_flags = <<" ", "a", "\t", "b">>
    /\ Len(data) = 2
    /\ \A i \in 1..2 : data[i].arguments = Before[i].arguments \o <<<<"a">>, <<"b">>>>

\* what follows the last "/" of p (p itself when it has none)
AfterLastSlash(p) ==
    LET cut == {k \in 0..Len(p) : (k = 0 \/ p[k] = "/") /\ \A j \in (k + 1)..Len(p) : p[j] # "/"}
    IN SubSeq(p, (CHOOSE k \in cut : TRUE) + 1, Len(p))

\* C21: change_compiler_path makes the first token of every record the
\* normalized path, "/" and the base name the first token had, and leaves
\* the other tokens and the other fields; the normalized path ends with no
\* separator unless it is the root.
C21_ChangeCompilerPath ==
    At("compiler_path")
    => /\ err = "none"
       /\ Len(data) = Len(Before)
       /\ \A i \in 1..Len(data) :
             LET old == Before[i].arguments
                 new == NormPath(args.compiler_path)
             IN /\ SameButArguments(data[i], Before[i])
                /\ data[i].arguments = <<new \o <<"/">> \o AfterLastSlash(old[1])>> \o Tail(old)
                /\ new = <<"/">> \/ Last(new) # "/"

\* C21 witness: with the path "/o/" the first token /b/g++ has become
\* /o/g++ and the tokens after it have stayed.
C21_Witness ==
    /\ At("compiler_path")
    /\ args.compiler_path = <<"/", "o", "/">>
    /\ Before[1].arguments = <<<<"/", "b", "/", "g", "+", "+">>, FlagI, tA>>
    /\ data[1].arguments = <<<<"/", "o", "/", "g", "+", "+">>, FlagI, tA>>

\* C22: a record in command form that goes to argument form and back has
\* the command string it had.
C22_RoundTripFromCommand ==
    (/\ hist = <<"to_arguments_cdb", "to_command_cdb">>
     /\ HasKey(input[1], "command"))
    => /\ err = "none"
       /\ HasKey(data[1], "command")
       /\ data[1].command = input[1].command

\* the collection as conversion number k left it
After(k) == IF k = Len(hist) THEN data ELSE trail[k + 1]

\* C23: to_arguments_cdb leaves a record in argument form, and
\* to_command_cdb a record in command form, with the keys and the values it
\* had.
C23_ConversionsIdempotent ==
    \A k \in 1..Len(hist) :
        LET e == trail[k][1]
        IN /\ (/\ hist[k] = "to_arguments_cdb"
               /\ HasKey(e, "arguments")
               /\ ~HasKey(e, "command"))
              => (After(k)[1] = e /\ (k = Len(hist) => err = "none"))
           /\ (/\ hist[k] = "to_command_cdb"
               /\ HasKey(e, "command")
               /\ ~HasKey(e, "arguments"))
              => (After(k)[1] = e /\ (k = Len(hist) => err = "none"))

\* C23 witness: a record made a command by to_command_cdb has gone through
\* to_command_cdb once more and is as it was.
C23_Witness ==
    /\ hist = <<"to_command_cdb", "to_command_cdb">>
    /\ input[1].arguments = <<<<"a">>, <<" ">>>>
    /\ HasKey(trail[2][1], "command")
    /\ data = trail[2]

\* a[j] is a path for the scan that takes the token after a flag for the
\* flag's path whatever it is: the token before it is a flag and not itself
\* a path
RECURSIVE TakenForPath(_, _)
TakenForPath(a, j) == j > 1 /\ a[j - 1] \in IncludeFlags /\ ~TakenForPath(a, j - 1)

\* C24: the three include scans take the token after an include flag for
\* the flag's path whatever it is, an include flag too, and take no other
\* token for a path: absolute_include_directories and
\* normalize_include_directories rewrite exactly these tokens, and
\* filter_include_directories removes exactly the matching ones with their
\* flags.
C24_TokenAfterFlagIsPath ==
    \A i \in 1..Len(data) :
        LET a == Before[i].arguments
        IN /\ At("absolute_include_directories")
              => data[i].arguments =
                    [j \in 1..Len(a) |->
                        IF TakenForPath(a, j) /\ ~IsAbs(a[j])
                        THEN NormPath(PathJoin(Before[i].directory, a[j]))
                        ELSE a[j]]
           /\ At("normalize_include_directories")
              => data[i].arguments =
                    [j \in 1..Len(a) |-> IF TakenForPath(a, j) THEN NormPath(a[j]) ELSE a[j]]
           /\ At("filter_include_directories")
              => data[i].arguments =
                    Without(a, {j \in 1..Len(a) :
                        \/ TakenForPath(a, j) /\ ReSearch(args.filter_include_directories, a[j])
                        \/ /\ j < Len(a)
                           /\ TakenForPath(a, j + 1)
                           /\ ReSearch(args.filter_include_directories, a[j + 1])})

\* C25: while execute runs, no more than args.threads commands are running
\* at a time, the commands are submitted in the order of the records, and
\* the records stay as they were.
C25_BoundedPool ==
    /\ Cardinality(running) <= args.threads
    /\ \A k \in 1..Len(submits) : submits[k] = k
    /\ queue = SelectSeq(submits, LAMBDA index : index \in Range(queue))
    /\ data = input

\* C25 witness: every worker of a pool of two is running a command and a
\* third command waits.
C25_Witness ==
    /\ args.threads = 2
    /\ Cardinality(running) = 2
    /\ queue # <<>>
    /\ xpc = "waiting"

\* C26: without remove_files, include_files, filter_files and
\* remove_duplicates, process_cdb returns as many records as it was given,
\* and the record at each place has the file and the directory of the
\* record given at that place, whatever the other options.
C26_RecordsKeepTheirPlace ==
    (/\ Returned
     /\ err = "none"
     /\ args.remove_files = <<>>
     /\ args.include_files = <<>>
     /\ args.filter_files = <<>>
     /\ ~args.remove_duplicates)
    => /\ Len(data) = Len(input)
       /\ \A i \in 1..Len(data) :
             /\ data[i].file = input[i].file
             /\ data[i].directory = input[i].directory
             /\ HasKey(data[i], "file")
             /\ HasKey(data[i], "directory")

\* C26 witness: process_cdb has returned two records of two files, given
\* in command and in argument form, after it rewrote their commands.
C26_Witness ==
    /\ Returned
    /\ err = "none"
    /\ args.absolute_include_directories
    /\ args.command
    /\ Len(data) = 2
    /\ HasKey(input[1], "command")
    /\ HasKey(input[2], "arguments")
    /\ data[1].file = tFileY
    /\ data[2].file = tFileX
    /\ data # input

\* the paths C27 states for a searched directory: the real path of every
\* match, less the matches held by the searched directory itself
ExpectedDbs ==
    {RealPath(p, tree) : p \in Glob(Root, tree)} \ {Root}

\* C27: get_compile_dbs returns the real path of every compile_commands.json
\* at any depth below the searched directory, leaving out those that the
\* searched directory itself holds and no other, whatever the name of the
\* directory that holds them. Stated here for a directory given by its
\* absolute path and a tree without symbolic links.
C27_ExcludesTheRootOnly ==
    (cdbs # <<>> /\ dir.absolute /\ tree.link = <<>>) => cdbs[1] = ExpectedDbs

\* the compiler of a command string: its first word
CompilerOf(c) == SplitWs(c, <<>>)[1]

\* C28: the script's to_gcc turns a command whose compiler is <dir>/clang++
\* into one whose compiler is <dir>/g++, and one whose compiler is
\* <dir>/clang into one whose compiler is <dir>/gcc.
C28_ScriptToGcc ==
    (/\ hist # <<>>
     /\ Last(hist) = "script_to_gcc"
     /\ err = "none")
    => \A p \in ScriptDirs :
          /\ CompilerOf(Before[1].command) = p \o sClangpp
                => CompilerOf(data[1].command) = p \o sGpp
          /\ CompilerOf(Before[1].command) = p \o sClang
                => CompilerOf(data[1].command) = p \o sGcc

\* C29: with filter_include_directories set, no include path of a record
\* that process_cdb returns matches the regex, whatever the other options.
C29_NoMatchingPathReturned ==
    (/\ Returned
     /\ err = "none"
     /\ args.filter_include_directories # <<>>
     /\ ~args.command)
    => \A i \in 1..Len(data) : \A j \in 1..Len(data[i].arguments) :
          IsPathAt(data[i].arguments, j)
          => ~ReSearch(args.filter_include_directories, data[i].arguments[j])

\* the sinks the database was delivered to, in order
DatabaseSinks ==
    LET db == SelectSeq(emitted, LAMBDA w : w[2] = "database")
    IN [k \in 1..Len(db) |-> db[k][1]]

\* C30: once main is past the output step with a collection that is not
\* empty, the database has gone to exactly one sink: standard output for an
\* --output recognised as stdout, standard error for stderr, nowhere for
\* none, the file otherwise, the reserved values being recognised whatever
\* the case of their letters.
C30_OneSinkForEveryOutput ==
    (mpc \notin {"idle", "output"} /\ input # <<>>)
    => DatabaseSinks =
          (IF Lower(args.output) = sStdout THEN <<"stdout">>
           ELSE IF Lower(args.output) = sStderr THEN <<"stderr">>
           ELSE IF Lower(args.output) = sNone THEN <<>>
           ELSE <<"file">>)

=============================================================================
